---- MODULE Spec2Model ----
(***************************************************************************)
(* Order / inventory transaction core of the business management app:      *)
(* models/order.py, models/product.py and the number generator and query   *)
(* gateway of controllers/database_controller.py.                          *)
(*                                                                         *)
(* The database tables are the shared state; every Order object held by a  *)
(* caller is a handle with its own in-memory copy of the order's fields.   *)
(* Every write statement is committed on its own (execute_query commits    *)
(* after each statement) and may raise a database error.                   *)
(***************************************************************************)
EXTENDS Integers, Naturals, Sequences, FiniteSets, TLC

VARIABLES
    orders,                  \* table orders: id -> row
    order_items,             \* table order_items: id -> row
    products,                \* table products: id -> stock
    financial_transactions,  \* table financial_transactions, in insertion order
    sqlite_sequence,         \* AUTOINCREMENT counters of orders and order_items
    handles,                 \* the Order objects held by callers
    today,                   \* the date datetime.now() reports
    issued,                  \* history: the numbers generate_number has returned
    pc,                      \* where each handle's running call stands
    last,                    \* the last call that returned: operation, handle, result
    calls,                   \* the number of calls made so far
    locals,                  \* the local variables of each handle's running call
    episode                  \* history: the calls that overlap, and the database before them

vars ==
    <<orders, order_items, products, financial_transactions, sqlite_sequence,
      handles, today, issued, pc, last, calls, locals, episode>>

----------------------------------------------------------------------------
(* Bounds of the model *)

MaxCalls == 4

MaxDay == 2

Handles == {"h1", "h2"}

ProductIds == {1}

\* the product ids that callers pass: that of a stored product, and one that no
\* stored product has
ProductArgs == ProductIds \cup {2}

InitStock == [p \in ProductIds |-> 2]

Quantities == {0, 1, 3}

Prices == {2}

Amounts == {-1, 1, 2}

\* the ids of the rows of the customers table, which no method of Order writes
Customers == {1}

\* the customer ids that callers pass: that of a stored customer, and one that
\* no stored customer has
CustomerArgs == Customers \cup {2}

----------------------------------------------------------------------------
(* Order numbers: prefix, date and the decimal digits of the sequence *)

SeqWidth == 4

NoNumber == [prefix |-> "", date |-> 0, digits |-> <<>>]

RECURSIVE Digits(_)
Digits(n) ==
    IF n < 10 THEN <<n>> ELSE Append(Digits(n \div 10), n % 10)

RECURSIVE ZeroPad(_, _)
ZeroPad(ds, w) ==
    IF Len(ds) >= w THEN ds ELSE ZeroPad(<<0>> \o ds, w)

\* f"{sequence:04d}"
FormatSeq(n) ==
    ZeroPad(Digits(n), SeqWidth)

RECURSIVE ToInt(_)
ToInt(ds) ==
    IF ds = <<>> THEN 0 ELSE 10 * ToInt(SubSeq(ds, 1, Len(ds) - 1)) + ds[Len(ds)]

\* int(last_number[-4:])
LastFour(num) ==
    ToInt(SubSeq(num.digits, Len(num.digits) - SeqWidth + 1, Len(num.digits)))

\* string order of two digit strings: character by character, a proper prefix first
RECURSIVE DigitsLess(_, _)
DigitsLess(a, b) ==
    IF a = <<>> THEN b # <<>>
    ELSE IF b = <<>> THEN FALSE
    ELSE IF Head(a) # Head(b) THEN Head(a) < Head(b)
    ELSE DigitsLess(Tail(a), Tail(b))

\* string order of two order numbers with the same prefix (dates are 8 digits wide)
NumberLess(a, b) ==
    \/ a.date < b.date
    \/ a.date = b.date /\ DigitsLess(a.digits, b.digits)

----------------------------------------------------------------------------
(* The database seen by one statement *)

DB ==
    [orders |-> orders, order_items |-> order_items, products |-> products,
     financial_transactions |-> financial_transactions,
     sqlite_sequence |-> sqlite_sequence]

\* f restricted to the keys other than k (DELETE ... WHERE id = k)
Without(f, k) ==
    [x \in DOMAIN f \ {k} |-> f[x]]

\* f extended or overwritten at key k
With(f, k, v) ==
    [x \in DOMAIN f \cup {k} |-> IF x = k THEN v ELSE f[x]]

RECURSIVE SumTotals(_, _)
SumTotals(items, ids) ==
    IF ids = {} THEN 0
    ELSE LET i == CHOOSE x \in ids : TRUE
         IN items[i].total + SumTotals(items, ids \ {i})

ItemsOf(d, order_id) ==
    {i \in DOMAIN d.order_items : d.order_items[i].order_id = order_id}

\* UNIQUE constraint of orders.order_number, for the row with id `id`
NumberTaken(d, id, number) ==
    \E i \in DOMAIN d.orders : i # id /\ d.orders[i].order_number = number

----------------------------------------------------------------------------
(* DatabaseController.generate_number('ORD', 'orders', 'order_number') *)

Prefix == "ORD"

\* SELECT order_number FROM orders WHERE order_number LIKE prefix+date+'%'
Matching(d, date) ==
    {n \in {d.orders[i].order_number : i \in DOMAIN d.orders} :
        n.prefix = Prefix /\ n.date = date}

\* ORDER BY order_number DESC LIMIT 1
LastNumber(ns) ==
    CHOOSE n \in ns : \A m \in ns : m = n \/ NumberLess(m, n)

generate_number(d, date) ==
    LET ns == Matching(d, date)
        sequence == IF ns # {} THEN LastFour(LastNumber(ns)) + 1 ELSE 1
    IN [prefix |-> Prefix, date |-> date, digits |-> FormatSeq(sequence)]

----------------------------------------------------------------------------
(* models/product.py *)

NoProduct == [id |-> 0, stock |-> 0]

\* Product.get_by_id: a fresh Product object, or None
ProductGetById(d, product_id) ==
    IF product_id \in DOMAIN d.products
    THEN [id |-> product_id, stock |-> d.products[product_id]]
    ELSE NoProduct

\* Product.update_stock: no check of the sign of the new stock; a database
\* error is caught inside and turned into a False the callers never read
update_stock(d, product, quantity, failed) ==
    IF product.id = 0 \/ failed THEN d
    ELSE IF product.id \in DOMAIN d.products
    THEN [d EXCEPT !.products[product.id] = product.stock + quantity]
    ELSE d

----------------------------------------------------------------------------
(* models/order.py: each operator maps the database d, the Order object o   *)
(* and the inputs to the database and object after the call, its result     *)
(* (ok: truthy or False; id: the id returned by add_item) and whether a     *)
(* write statement raised a database error during the call.                 *)
(* fail is the set of write statements of the call that raise: statement k  *)
(* raises when it is reached and k is in fail.                              *)

\* Order.__init__ with its defaults
NewOrder ==
    [id |-> 0, order_number |-> NoNumber, customer_id |-> 0, status |-> "pending",
     total_amount |-> 0, paid_amount |-> 0]

RowOf(o) ==
    [order_number |-> o.order_number, customer_id |-> o.customer_id,
     status |-> o.status,
     total_amount |-> o.total_amount, paid_amount |-> o.paid_amount]

Outcome(d, o, ok, id, raised) ==
    [db |-> d, obj |-> o, ok |-> ok, id |-> id, raised |-> raised]

\* Order.save, lines 34-35: the number is generated only if the object has none
SaveNumber(d, o, date) ==
    IF o.order_number = NoNumber
    THEN [o EXCEPT !.order_number = generate_number(d, date)]
    ELSE o

\* Order.save, lines 38-45: INSERT INTO orders
SaveInsert(d, o, fail) ==
    IF 1 \in fail \/ NumberTaken(d, 0, o.order_number)
    THEN Outcome(d, o, FALSE, 0, TRUE)
    ELSE LET id == d.sqlite_sequence.orders + 1
         IN Outcome([d EXCEPT !.orders = With(d.orders, id, RowOf(o)),
                              !.sqlite_sequence.orders = id],
                    [o EXCEPT !.id = id], TRUE, 0, FALSE)

\* Order.save, lines 47-57: UPDATE orders SET every column WHERE id = ?
SaveUpdate(d, o, fail) ==
    IF 1 \in fail THEN Outcome(d, o, FALSE, 0, TRUE)
    ELSE IF o.id \notin DOMAIN d.orders THEN Outcome(d, o, TRUE, 0, FALSE)
    ELSE IF NumberTaken(d, o.id, o.order_number)
    THEN Outcome(d, o, FALSE, 0, TRUE)
    ELSE Outcome([d EXCEPT !.orders[o.id] = RowOf(o)], o, TRUE, 0, FALSE)

save(d, o, date, fail) ==
    IF o.id = 0
    THEN SaveInsert(d, SaveNumber(d, o, date), fail)
    ELSE SaveUpdate(d, o, fail)

\* a delete that would also take the order's payment records out of the ledger
delete_with_payments(d, o, fail) ==
    IF o.id = 0 THEN Outcome(d, o, FALSE, 0, FALSE)
    ELSE IF 1 \in fail THEN Outcome(d, o, FALSE, 0, TRUE)
    ELSE Outcome([d EXCEPT
                     !.order_items = [i \in DOMAIN d.order_items \ ItemsOf(d, o.id)
                                         |-> d.order_items[i]],
                     !.orders = Without(d.orders, o.id),
                     !.financial_transactions =
                         SelectSeq(@, LAMBDA t : t.reference_id # o.id)],
                 o, TRUE, 0, FALSE)

\* Order.delete: the items, then the order; product stock is not touched
delete(d, o, fail) ==
    IF o.id = 0 THEN Outcome(d, o, FALSE, 0, FALSE)
    ELSE IF 1 \in fail THEN Outcome(d, o, FALSE, 0, TRUE)
    ELSE LET d1 == [d EXCEPT !.order_items =
                        [i \in DOMAIN d.order_items \ ItemsOf(d, o.id)
                            |-> d.order_items[i]]]
         IN IF 2 \in fail THEN Outcome(d1, o, FALSE, 0, TRUE)
            ELSE Outcome([d1 EXCEPT !.orders = Without(d1.orders, o.id)],
                         o, TRUE, 0, FALSE)

\* Order.update_total: the object's total is set before the UPDATE is run, and
\* a database error is caught inside
update_total(d, o, failed) ==
    IF o.id = 0 THEN Outcome(d, o, FALSE, 0, FALSE)
    ELSE LET total == SumTotals(d.order_items, ItemsOf(d, o.id))
             o1 == [o EXCEPT !.total_amount = total]
         IN IF failed THEN Outcome(d, o1, FALSE, 0, TRUE)
            ELSE IF o.id \in DOMAIN d.orders
            THEN Outcome([d EXCEPT !.orders[o.id].total_amount = total],
                         o1, TRUE, 0, FALSE)
            ELSE Outcome(d, o1, TRUE, 0, FALSE)

\* Order.add_item: INSERT the line, update_total, then the stock of the product;
\* the results of update_total and update_stock are not read
add_item(d, o, product_id, quantity, price, fail) ==
    IF o.id = 0 THEN Outcome(d, o, FALSE, 0, FALSE)
    ELSE IF 1 \in fail THEN Outcome(d, o, FALSE, 0, TRUE)
    ELSE LET item_id == d.sqlite_sequence.order_items + 1
             item == [order_id |-> o.id, product_id |-> product_id,
                      quantity |-> quantity, price |-> price,
                      total |-> quantity * price]
             d1 == [d EXCEPT !.order_items = With(d.order_items, item_id, item),
                             !.sqlite_sequence.order_items = item_id]
             r2 == update_total(d1, o, 2 \in fail)
             product == ProductGetById(r2.db, product_id)
             d3 == update_stock(r2.db, product, 0 - quantity, 3 \in fail)
         IN Outcome(d3, r2.obj, TRUE, item_id,
                    r2.raised \/ (product # NoProduct /\ 3 \in fail))

\* Order.remove_item: the line is looked up by its id alone
remove_item(d, o, item_id, fail) ==
    IF o.id = 0 \/ item_id \notin DOMAIN d.order_items
    THEN Outcome(d, o, FALSE, 0, FALSE)
    ELSE LET item == d.order_items[item_id]
             product == ProductGetById(d, item.product_id)
             d1 == update_stock(d, product, item.quantity, 1 \in fail)
             raised1 == product # NoProduct /\ 1 \in fail
         IN IF 2 \in fail THEN Outcome(d1, o, FALSE, 0, TRUE)
            ELSE LET d2 == [d1 EXCEPT !.order_items =
                                Without(d1.order_items, item_id)]
                     r3 == update_total(d2, o, 3 \in fail)
                 IN Outcome(r3.db, r3.obj, TRUE, 0, raised1 \/ r3.raised)

\* Order.record_payment: a database error is caught inside
record_payment(d, o, amount, failed) ==
    IF failed THEN d
    ELSE [d EXCEPT !.financial_transactions =
              Append(@, [reference_id |-> o.id, amount |-> amount])]

\* UPDATE orders SET status = ? WHERE id = ?
SetStatus(d, id, status) ==
    IF id \in DOMAIN d.orders THEN [d EXCEPT !.orders[id].status = status] ELSE d

\* UPDATE orders SET paid_amount = ? WHERE id = ?
SetPaid(d, id, paid_amount) ==
    IF id \in DOMAIN d.orders
    THEN [d EXCEPT !.orders[id].paid_amount = paid_amount]
    ELSE d

\* Order.add_payment: the new paid amount is computed from the object's copy;
\* the status is written only when the object is fully paid
add_payment(d, o, amount, fail) ==
    IF o.id = 0 THEN Outcome(d, o, FALSE, 0, FALSE)
    ELSE IF 1 \in fail THEN Outcome(d, o, FALSE, 0, TRUE)
    ELSE LET new_paid_amount == o.paid_amount + amount
             d1 == SetPaid(d, o.id, new_paid_amount)
             o1 == [o EXCEPT !.paid_amount = new_paid_amount]
         IN IF o1.paid_amount >= o1.total_amount
            THEN LET o2 == [o1 EXCEPT !.status = "paid"]
                 IN IF 2 \in fail THEN Outcome(d1, o2, FALSE, 0, TRUE)
                    ELSE Outcome(record_payment(SetStatus(d1, o.id, "paid"),
                                                o2, amount, 3 \in fail),
                                 o2, TRUE, 0, 3 \in fail)
            ELSE Outcome(record_payment(d1, o1, amount, 3 \in fail),
                         o1, TRUE, 0, 3 \in fail)

\* Order.get_by_id: a new object with a copy of the row
get_by_id(d, order_id) ==
    [id |-> order_id, order_number |-> d.orders[order_id].order_number,
     customer_id |-> d.orders[order_id].customer_id,
     status |-> d.orders[order_id].status,
     total_amount |-> d.orders[order_id].total_amount,
     paid_amount |-> d.orders[order_id].paid_amount]

\* Order.to_dict: the fields of the object that the model keeps, and the
\* remaining amount computed from them
to_dict(o) ==
    [id |-> o.id, order_number |-> o.order_number, customer_id |-> o.customer_id,
     status |-> o.status, total_amount |-> o.total_amount,
     paid_amount |-> o.paid_amount,
     remaining_amount |-> o.total_amount - o.paid_amount]

----------------------------------------------------------------------------
(* The state machine: calls made one after the other *)

NoItem ==
    [order_id |-> 0, product_id |-> 0, quantity |-> 0, price |-> 0, total |-> 0]

\* the local variables of a call: its arguments and what its SELECTs returned
NoLocals ==
    [product_id |-> 0, quantity |-> 0, price |-> 0, item_id |-> 0, amount |-> 0,
     total |-> 0, item |-> NoItem, product |-> NoProduct]

NoEpisode ==
    [db |-> [orders |-> <<>>, order_items |-> <<>>, products |-> <<>>,
             financial_transactions |-> <<>>,
             sqlite_sequence |-> [orders |-> 0, order_items |-> 0]],
     calls |-> <<>>, adjusts |-> <<>>, done |-> FALSE]

Init ==
    /\ orders = <<>>
    /\ order_items = <<>>
    /\ products = InitStock
    /\ financial_transactions = <<>>
    /\ sqlite_sequence = [orders |-> 0, order_items |-> 0]
    /\ handles = [h \in Handles |-> NewOrder]
    /\ today = 1
    /\ issued = {}
    /\ pc = [h \in Handles |-> "idle"]
    /\ last = [op |-> "init", h |-> "", ok |-> TRUE, id |-> 0, raised |-> FALSE]
    /\ calls = 0
    /\ locals = [h \in Handles |-> NoLocals]
    /\ episode = NoEpisode

\* a call in an episode: the handle, the operation, the object as the call
\* began and the arguments
CallOf(h, op) ==
    [h |-> h, op |-> op, obj |-> handles[h], product_id |-> 0, quantity |-> 0,
     price |-> 0, item_id |-> 0, amount |-> 0]

\* no call is running
Quiet ==
    \A h \in Handles : pc[h] = "idle"

\* a call of several statements begins: it joins the calls that are running,
\* or opens an episode with the database as it is
Begin(c) ==
    episode' = IF Quiet
               THEN [db |-> DB, calls |-> <<c>>, adjusts |-> <<>>, done |-> FALSE]
               ELSE [episode EXCEPT !.calls = Append(@, c)]

\* the running call of handle h returns, the episode being e: the episode is
\* done when no other call is running
End(h, e) ==
    episode' = IF \A g \in Handles \ {h} : pc[g] = "idle"
               THEN [e EXCEPT !.done = TRUE]
               ELSE e

\* a call that runs in one step: it joins the calls that are running, and it
\* ends the memory of an episode that is done
Aside(h, op) ==
    /\ locals' = locals
    /\ episode' = IF Quiet THEN NoEpisode
                  ELSE [episode EXCEPT !.calls = Append(@, CallOf(h, op))]

\* the sets of write statements that may raise, for a call with n write statements
FailSets(n) ==
    SUBSET (1 .. n)

\* one more call is made
Call ==
    /\ calls < MaxCalls
    /\ calls' = calls + 1

\* the call op of handle h returns outcome r
Return(op, h, r) ==
    /\ orders' = r.db.orders
    /\ order_items' = r.db.order_items
    /\ products' = r.db.products
    /\ financial_transactions' = r.db.financial_transactions
    /\ sqlite_sequence' = r.db.sqlite_sequence
    /\ handles' = [handles EXCEPT ![h] = r.obj]
    /\ last' = [op |-> op, h |-> h, ok |-> r.ok, id |-> r.id, raised |-> r.raised]

\* order = Order(customer_id=customer_id)
New(h, customer_id) ==
    /\ pc[h] = "idle"
    /\ Call
    /\ Return("new", h,
              Outcome(DB, [NewOrder EXCEPT !.customer_id = customer_id],
                      TRUE, 0, FALSE))
    /\ UNCHANGED <<today, issued, pc, locals, episode>>

\* order = Order.get_by_id(order_id), for an order that exists
GetById(h, order_id) ==
    /\ pc[h] = "idle"
    /\ order_id \in DOMAIN orders
    /\ Call
    /\ Return("get_by_id", h, Outcome(DB, get_by_id(DB, order_id), TRUE, 0, FALSE))
    /\ UNCHANGED <<today, issued, pc, locals, episode>>

\* the numbers generate_number has returned, after a save() of object o
Issue(o) ==
    IF o.id = 0 /\ o.order_number = NoNumber
    THEN issued \cup {generate_number(DB, today)}
    ELSE issued

\* order.save()
Save(h, fail) ==
    /\ pc[h] = "idle"
    /\ Call
    /\ Return("save", h, save(DB, handles[h], today, fail))
    /\ issued' = Issue(handles[h])
    /\ Aside(h, "save")
    /\ UNCHANGED <<today, pc>>

\* order.delete()
Delete(h, fail) ==
    /\ pc[h] = "idle"
    /\ Call
    /\ Return("delete", h, delete(DB, handles[h], fail))
    /\ Aside(h, "delete")
    /\ UNCHANGED <<today, issued, pc>>

\* order.add_item(product_id, quantity, price)
AddItem(h, product_id, quantity, price, fail) ==
    /\ pc[h] = "idle"
    /\ Call
    /\ Return("add_item", h,
              add_item(DB, handles[h], product_id, quantity, price, fail))
    /\ Aside(h, "add_item")
    /\ UNCHANGED <<today, issued, pc>>

\* order.remove_item(item_id)
RemoveItem(h, item_id, fail) ==
    /\ pc[h] = "idle"
    /\ Call
    /\ Return("remove_item", h, remove_item(DB, handles[h], item_id, fail))
    /\ Aside(h, "remove_item")
    /\ UNCHANGED <<today, issued, pc>>

\* order.add_payment(amount)
AddPayment(h, amount, fail) ==
    /\ pc[h] = "idle"
    /\ Call
    /\ Return("add_payment", h, add_payment(DB, handles[h], amount, fail))
    /\ Aside(h, "add_payment")
    /\ UNCHANGED <<today, issued, pc>>

\* midnight: datetime.now() reports the next date
Tick ==
    /\ today < MaxDay
    /\ today' = today + 1
    /\ UNCHANGED <<orders, order_items, products, financial_transactions,
                   sqlite_sequence, handles, issued, pc, last, calls, locals,
                   episode>>

\* calls made one after the other, no statement raising
Next ==
    \/ \E h \in Handles, customer_id \in CustomerArgs : New(h, customer_id)
    \/ \E h \in Handles, order_id \in 1 .. MaxCalls : GetById(h, order_id)
    \/ \E h \in Handles : Save(h, {})
    \/ \E h \in Handles : Delete(h, {})
    \/ \E h \in Handles, product_id \in ProductArgs, quantity \in Quantities,
          price \in Prices :
            AddItem(h, product_id, quantity, price, {})
    \/ \E h \in Handles, item_id \in 1 .. MaxCalls : RemoveItem(h, item_id, {})
    \/ \E h \in Handles, amount \in Amounts : AddPayment(h, amount, {})
    \/ Tick

Spec ==
    Init /\ [][Next]_vars

\* the number of the first day with the highest sequence the 4-digit field holds
LastOfWidth ==
    [prefix |-> Prefix, date |-> 1, digits |-> [i \in 1 .. SeqWidth |-> 9]]

\* the database with one order stored, whose number is LastOfWidth: the state
\* after Order(order_number=...).save(), or after that many orders of one day
InitLastOfWidth ==
    /\ orders = <<[RowOf(NewOrder) EXCEPT !.order_number = LastOfWidth]>>
    /\ order_items = <<>>
    /\ products = InitStock
    /\ financial_transactions = <<>>
    /\ sqlite_sequence = [orders |-> 1, order_items |-> 0]
    /\ handles = [h \in Handles |-> NewOrder]
    /\ today = 1
    /\ issued = {LastOfWidth}
    /\ pc = [h \in Handles |-> "idle"]
    /\ last = [op |-> "init", h |-> "", ok |-> TRUE, id |-> 0, raised |-> FALSE]
    /\ calls = 0
    /\ locals = [h \in Handles |-> NoLocals]
    /\ episode = NoEpisode

\* calls made one after the other, from the database of InitLastOfWidth
SpecLastOfWidth ==
    InitLastOfWidth /\ [][Next]_vars

\* calls made one after the other, any write statement raising
NextFaults ==
    \/ \E h \in Handles, customer_id \in CustomerArgs : New(h, customer_id)
    \/ \E h \in Handles, order_id \in 1 .. MaxCalls : GetById(h, order_id)
    \/ \E h \in Handles, fail \in FailSets(1) : Save(h, fail)
    \/ \E h \in Handles, fail \in FailSets(2) : Delete(h, fail)
    \/ \E h \in Handles, product_id \in ProductArgs, quantity \in Quantities,
          price \in Prices, fail \in FailSets(3) :
            AddItem(h, product_id, quantity, price, fail)
    \/ \E h \in Handles, item_id \in 1 .. MaxCalls, fail \in FailSets(3) :
            RemoveItem(h, item_id, fail)
    \/ \E h \in Handles, amount \in Amounts, fail \in FailSets(3) :
            AddPayment(h, amount, fail)
    \/ Tick

SpecFaults ==
    Init /\ [][NextFaults]_vars

----------------------------------------------------------------------------
(* Calls that overlap: every call is the sequence of the statements it     *)
(* sends to the database, and another caller's statements may run between  *)
(* two of them. save() of a new order is the SELECT of generate_number and *)
(* the INSERT.                                                              *)

\* Order.save of a new order up to the INSERT: the number is generated
SaveBegin(h) ==
    /\ pc[h] = "idle"
    /\ handles[h].id = 0
    /\ Call
    /\ handles' = [handles EXCEPT ![h] = SaveNumber(DB, handles[h], today)]
    /\ issued' = Issue(handles[h])
    /\ pc' = [pc EXCEPT ![h] = "save_insert"]
    /\ Begin(CallOf(h, "save"))
    /\ UNCHANGED <<orders, order_items, products, financial_transactions,
                   sqlite_sequence, today, last, locals>>

\* Order.save of a new order from the INSERT on
SaveEnd(h, fail) ==
    /\ pc[h] = "save_insert"
    /\ Return("save", h, SaveInsert(DB, handles[h], fail))
    /\ pc' = [pc EXCEPT ![h] = "idle"]
    /\ End(h, episode)
    /\ UNCHANGED <<today, issued, calls, locals>>

\* the tables become those of d
Write(d) ==
    /\ orders' = d.orders
    /\ order_items' = d.order_items
    /\ products' = d.products
    /\ financial_transactions' = d.financial_transactions
    /\ sqlite_sequence' = d.sqlite_sequence

\* the running call of handle h has run a statement and goes on at label
Continue(h, d, o, l, label) ==
    /\ Write(d)
    /\ handles' = [handles EXCEPT ![h] = o]
    /\ locals' = [locals EXCEPT ![h] = l]
    /\ pc' = [pc EXCEPT ![h] = label]
    /\ UNCHANGED <<today, issued, last>>

\* the running call op of handle h returns outcome r, the episode being e
Finish(op, h, r, e) ==
    /\ Return(op, h, r)
    /\ locals' = [locals EXCEPT ![h] = NoLocals]
    /\ pc' = [pc EXCEPT ![h] = "idle"]
    /\ End(h, e)
    /\ UNCHANGED <<today, issued, calls>>

\* INSERT INTO order_items (Order.add_item, lines 88-95)
InsertItem(d, o, product_id, quantity, price) ==
    LET item_id == d.sqlite_sequence.order_items + 1
    IN [d EXCEPT !.order_items =
                    With(d.order_items, item_id,
                         [order_id |-> o.id, product_id |-> product_id,
                          quantity |-> quantity, price |-> price,
                          total |-> quantity * price]),
                 !.sqlite_sequence.order_items = item_id]

\* UPDATE orders SET total_amount = ? WHERE id = ? (Order.update_total)
SetTotal(d, id, total) ==
    IF id \in DOMAIN d.orders
    THEN [d EXCEPT !.orders[id].total_amount = total]
    ELSE d

\* a stock adjustment is noted in the episode
Adjusted(product_id, delta) ==
    [episode EXCEPT !.adjusts =
        Append(@, [product_id |-> product_id, delta |-> delta])]

\* Order.add_item up to and with the INSERT of the line
AddItemInsert(h, product_id, quantity, price) ==
    /\ pc[h] = "idle"
    /\ IF handles[h].id = 0
       THEN AddItem(h, product_id, quantity, price, {})
       ELSE /\ Call
            /\ Continue(h, InsertItem(DB, handles[h], product_id, quantity, price),
                        handles[h],
                        [NoLocals EXCEPT !.product_id = product_id,
                                         !.quantity = quantity,
                                         !.price = price,
                                         !.item_id = sqlite_sequence.order_items + 1],
                        "add_item_sum")
            /\ Begin([CallOf(h, "add_item") EXCEPT !.product_id = product_id,
                                                   !.quantity = quantity,
                                                   !.price = price])

\* Order.update_total, the SELECT of the sum: the object's total is set
SelectSum(h, label) ==
    LET total == SumTotals(order_items, ItemsOf(DB, handles[h].id))
    IN /\ Continue(h, DB, [handles[h] EXCEPT !.total_amount = total],
                   [locals[h] EXCEPT !.total = total], label)
       /\ UNCHANGED <<calls, episode>>

AddItemSum(h) ==
    /\ pc[h] = "add_item_sum"
    /\ SelectSum(h, "add_item_total")

\* Order.update_total, the UPDATE of the order's total
AddItemTotal(h) ==
    /\ pc[h] = "add_item_total"
    /\ Continue(h, SetTotal(DB, handles[h].id, locals[h].total), handles[h],
                locals[h], "add_item_product")
    /\ UNCHANGED <<calls, episode>>

\* Order.add_item, Product.get_by_id: without a product the call returns
AddItemProduct(h) ==
    /\ pc[h] = "add_item_product"
    /\ LET product == ProductGetById(DB, locals[h].product_id)
       IN IF product = NoProduct
          THEN Finish("add_item", h,
                      Outcome(DB, handles[h], TRUE, locals[h].item_id, FALSE),
                      episode)
          ELSE /\ Continue(h, DB, handles[h],
                           [locals[h] EXCEPT !.product = product],
                           "add_item_stock")
               /\ UNCHANGED <<calls, episode>>

\* Order.add_item, product.update_stock(-quantity), and the return
AddItemStock(h) ==
    /\ pc[h] = "add_item_stock"
    /\ Finish("add_item", h,
              Outcome(update_stock(DB, locals[h].product,
                                   0 - locals[h].quantity, FALSE),
                      handles[h], TRUE, locals[h].item_id, FALSE),
              Adjusted(locals[h].product.id, 0 - locals[h].quantity))

\* Order.remove_item up to and with the SELECT of the line
RemoveItemSelect(h, item_id) ==
    /\ pc[h] = "idle"
    /\ IF handles[h].id = 0 \/ item_id \notin DOMAIN order_items
       THEN RemoveItem(h, item_id, {})
       ELSE /\ Call
            /\ Continue(h, DB, handles[h],
                        [NoLocals EXCEPT !.item_id = item_id,
                                         !.item = order_items[item_id]],
                        "remove_item_product")
            /\ Begin([CallOf(h, "remove_item") EXCEPT !.item_id = item_id])

\* Order.remove_item, Product.get_by_id
RemoveItemProduct(h) ==
    /\ pc[h] = "remove_item_product"
    /\ LET product == ProductGetById(DB, locals[h].item.product_id)
       IN Continue(h, DB, handles[h], [locals[h] EXCEPT !.product = product],
                   IF product = NoProduct THEN "remove_item_delete"
                   ELSE "remove_item_stock")
    /\ UNCHANGED <<calls, episode>>

\* Order.remove_item, product.update_stock(quantity)
RemoveItemStock(h) ==
    /\ pc[h] = "remove_item_stock"
    /\ Continue(h, update_stock(DB, locals[h].product,
                                locals[h].item.quantity, FALSE),
                handles[h], locals[h], "remove_item_delete")
    /\ episode' = Adjusted(locals[h].product.id, locals[h].item.quantity)
    /\ UNCHANGED calls

\* Order.remove_item, DELETE FROM order_items WHERE id = ?
RemoveItemDelete(h) ==
    /\ pc[h] = "remove_item_delete"
    /\ Continue(h, [DB EXCEPT !.order_items = Without(@, locals[h].item_id)],
                handles[h], locals[h], "remove_item_sum")
    /\ UNCHANGED <<calls, episode>>

RemoveItemSum(h) ==
    /\ pc[h] = "remove_item_sum"
    /\ SelectSum(h, "remove_item_total")

\* Order.update_total, the UPDATE of the order's total, and the return
RemoveItemTotal(h) ==
    /\ pc[h] = "remove_item_total"
    /\ Finish("remove_item", h,
              Outcome(SetTotal(DB, handles[h].id, locals[h].total),
                      handles[h], TRUE, 0, FALSE),
              episode)

\* Order.add_payment up to and with the UPDATE of paid_amount; the object's
\* status is set when it is fully paid
AddPaymentPaid(h, amount) ==
    /\ pc[h] = "idle"
    /\ IF handles[h].id = 0
       THEN AddPayment(h, amount, {})
       ELSE LET new_paid_amount == handles[h].paid_amount + amount
                paid == new_paid_amount >= handles[h].total_amount
            IN /\ Call
               /\ Continue(h, SetPaid(DB, handles[h].id, new_paid_amount),
                           [handles[h] EXCEPT
                               !.paid_amount = new_paid_amount,
                               !.status = IF paid THEN "paid" ELSE @],
                           [NoLocals EXCEPT !.amount = amount],
                           IF paid THEN "add_payment_status"
                           ELSE "add_payment_record")
               /\ Begin([CallOf(h, "add_payment") EXCEPT !.amount = amount])

\* Order.add_payment, the UPDATE of status
AddPaymentStatus(h) ==
    /\ pc[h] = "add_payment_status"
    /\ Continue(h, SetStatus(DB, handles[h].id, "paid"), handles[h], locals[h],
                "add_payment_record")
    /\ UNCHANGED <<calls, episode>>

\* Order.add_payment, record_payment, and the return
AddPaymentRecord(h) ==
    /\ pc[h] = "add_payment_record"
    /\ Finish("add_payment", h,
              Outcome(record_payment(DB, handles[h], locals[h].amount, FALSE),
                      handles[h], TRUE, 0, FALSE),
              episode)

NextConc ==
    \/ \E h \in Handles, customer_id \in CustomerArgs : New(h, customer_id)
    \/ \E h \in Handles, order_id \in 1 .. MaxCalls : GetById(h, order_id)
    \/ \E h \in Handles : SaveBegin(h)
    \/ \E h \in Handles : SaveEnd(h, {})
    \/ \E h \in Handles : Delete(h, {})
    \/ \E h \in Handles, product_id \in ProductArgs, quantity \in Quantities,
          price \in Prices :
            AddItemInsert(h, product_id, quantity, price)
    \/ \E h \in Handles : AddItemSum(h)
    \/ \E h \in Handles : AddItemTotal(h)
    \/ \E h \in Handles : AddItemProduct(h)
    \/ \E h \in Handles : AddItemStock(h)
    \/ \E h \in Handles, item_id \in 1 .. MaxCalls : RemoveItemSelect(h, item_id)
    \/ \E h \in Handles : RemoveItemProduct(h)
    \/ \E h \in Handles : RemoveItemStock(h)
    \/ \E h \in Handles : RemoveItemDelete(h)
    \/ \E h \in Handles : RemoveItemSum(h)
    \/ \E h \in Handles : RemoveItemTotal(h)
    \/ \E h \in Handles, amount \in Amounts : AddPaymentPaid(h, amount)
    \/ \E h \in Handles : AddPaymentStatus(h)
    \/ \E h \in Handles : AddPaymentRecord(h)
    \/ Tick

SpecConc ==
    Init /\ [][NextConc]_vars

\* the object and the tables after order = Order(); order.save();
\* order.add_item(1, 1, 2) on the first day
LoadedDB ==
    add_item(SaveInsert([orders |-> <<>>, order_items |-> <<>>,
                         products |-> InitStock,
                         financial_transactions |-> <<>>,
                         sqlite_sequence |-> [orders |-> 0, order_items |-> 0]],
                        [NewOrder EXCEPT !.order_number =
                            [prefix |-> Prefix, date |-> 1,
                             digits |-> FormatSeq(1)]],
                        {}).db,
             [NewOrder EXCEPT !.id = 1], 1, 1, 2, {}).db

\* one order with one line is stored, and two objects have been loaded from it
\* with Order.get_by_id
InitLoaded ==
    /\ orders = LoadedDB.orders
    /\ order_items = LoadedDB.order_items
    /\ products = LoadedDB.products
    /\ financial_transactions = LoadedDB.financial_transactions
    /\ sqlite_sequence = LoadedDB.sqlite_sequence
    /\ handles = [h \in Handles |-> get_by_id(LoadedDB, 1)]
    /\ today = 1
    /\ issued = {LoadedDB.orders[1].order_number}
    /\ pc = [h \in Handles |-> "idle"]
    /\ last = [op |-> "init", h |-> "", ok |-> TRUE, id |-> 0, raised |-> FALSE]
    /\ calls = 0
    /\ locals = [h \in Handles |-> NoLocals]
    /\ episode = NoEpisode

\* overlapping calls of remove_item
NextRemovals ==
    \/ \E h \in Handles, item_id \in 1 .. MaxCalls : RemoveItemSelect(h, item_id)
    \/ \E h \in Handles : RemoveItemProduct(h)
    \/ \E h \in Handles : RemoveItemStock(h)
    \/ \E h \in Handles : RemoveItemDelete(h)
    \/ \E h \in Handles : RemoveItemSum(h)
    \/ \E h \in Handles : RemoveItemTotal(h)

\* overlapping calls of remove_item, from the database of InitLoaded
SpecRemovals ==
    InitLoaded /\ [][NextRemovals]_vars

----------------------------------------------------------------------------
(* Properties *)

RECURSIVE SumQuantities(_, _)
SumQuantities(items, ids) ==
    IF ids = {} THEN 0
    ELSE LET i == CHOOSE x \in ids : TRUE
         IN items[i].quantity + SumQuantities(items, ids \ {i})

RECURSIVE SumPayments(_, _)
SumPayments(ledger, order_id) ==
    IF ledger = <<>> THEN 0
    ELSE (IF Head(ledger).reference_id = order_id THEN Head(ledger).amount ELSE 0)
         + SumPayments(Tail(ledger), order_id)

\* the status rule of the order state machine
derive_status(total_amount, paid_amount) ==
    IF paid_amount <= 0 THEN "unpaid"
    ELSE IF paid_amount < total_amount THEN "partial"
    ELSE "paid"

\* the tables are as they were before the step
Untouched ==
    /\ orders' = orders
    /\ order_items' = order_items
    /\ products' = products
    /\ financial_transactions' = financial_transactions

\* C1: after every completed call, through whichever handle, the total_amount
\* stored for an existing order is the sum of the totals of its stored lines.
C1_TotalMatchesLines ==
    \A id \in DOMAIN orders :
        orders[id].total_amount = SumTotals(order_items, ItemsOf(DB, id))

\* C2: after an add_item, remove_item or add_payment that succeeded, the stored
\* status of the order is the status derived from its stored total and paid
\* amounts (unpaid for an order with a line and no payment).
C2_StatusDerived ==
    (/\ last.op \in {"add_item", "remove_item", "add_payment"}
     /\ last.ok
     /\ handles[last.h].id \in DOMAIN orders)
    => LET row == orders[handles[last.h].id]
       IN row.status = derive_status(row.total_amount, row.paid_amount)

\* C3: the stored stock of every product is never negative.
C3_StockNonNegative ==
    \A p \in DOMAIN products : products[p] >= 0

\* C4: an add_item of a quantity above the product's stock fails, inserts no
\* line and leaves the order's total and the product's stock as they were.
C4_InsufficientStockRejected ==
    [][\A h \in Handles, p \in ProductIds, q \in Quantities, price \in Prices :
          (/\ AddItem(h, p, q, price, {})
           /\ handles[h].id \in DOMAIN orders
           /\ q > products[p])
          => (~last'.ok /\ Untouched)]_vars

\* C5: a call of add_item, remove_item, add_payment or delete during which a
\* write statement raised leaves every table as it was before the call.
C5_AllOrNothing ==
    [][(/\ calls' # calls
        /\ last'.op \in {"add_item", "remove_item", "add_payment", "delete"}
        /\ last'.raised)
       => Untouched]_vars

\* C6: two creations in flight at the same time never hold the same generated
\* order number.
C6_ConcurrentNumbersDiffer ==
    \A h1 \in Handles, h2 \in Handles :
        (h1 # h2 /\ pc[h1] = "save_insert" /\ pc[h2] = "save_insert")
        => handles[h1].order_number # handles[h2].order_number

\* the sequences of the numbers issued for a date
IssuedSeqs(date) ==
    {ToInt(n.digits) : n \in {m \in issued : m.prefix = Prefix /\ m.date = date}}

Max(S) ==
    CHOOSE x \in S : \A y \in S : y <= x

\* C7: a generated number is the prefix, the date and the zero-padded sequence,
\* which is 1 when no number was issued for the date and otherwise one above
\* the highest sequence issued for the date.
C7_NextSequence ==
    [][\A h \in Handles :
          (/\ Save(h, {})
           /\ handles[h].id = 0
           /\ handles[h].order_number = NoNumber)
          => handles'[h].order_number =
                [prefix |-> Prefix, date |-> today,
                 digits |-> FormatSeq(IF IssuedSeqs(today) = {} THEN 1
                                      ELSE Max(IssuedSeqs(today)) + 1)]]_vars

\* C8: from any state, for an order and a product with enough stock, add_item
\* followed by remove_item of the added line leaves the product's stock and the
\* order's stored total as they were before the add_item.
C8_RoundTrip ==
    \A h \in Handles, p \in ProductIds, q \in Quantities, price \in Prices :
        (handles[h].id \in DOMAIN orders /\ products[p] >= q)
        => LET added == add_item(DB, handles[h], p, q, price, {})
               removed == remove_item(added.db, added.obj, added.id, {})
           IN /\ added.ok /\ removed.ok
              /\ removed.db.products[p] = products[p]
              /\ removed.db.orders[handles[h].id].total_amount
                    = orders[handles[h].id].total_amount

\* C9: the paid_amount stored for an existing order is the sum of the amounts
\* of the payment records posted for it.
C9_PaidMatchesLedger ==
    \A id \in DOMAIN orders :
        orders[id].paid_amount = SumPayments(financial_transactions, id)

\* C10: the stock of a product plus the quantities of the stored lines of that
\* product is the product's initial stock.
C10_StockReflectsLines ==
    \A p \in DOMAIN products :
        products[p]
          + SumQuantities(order_items,
                {i \in DOMAIN order_items : order_items[i].product_id = p})
        = InitStock[p]

\* the quantities of the stored lines of order id that are of product p
QuantityOf(id, p) ==
    SumQuantities(order_items,
        {i \in DOMAIN order_items :
            order_items[i].order_id = id /\ order_items[i].product_id = p})

\* C11: delete of an existing order adds the quantity of each of its lines back
\* to the stock of the line's product, and removes its lines and the order.
C11_DeleteRestoresStock ==
    [][\A h \in Handles :
          (Delete(h, {}) /\ handles[h].id \in DOMAIN orders)
          => /\ \A p \in DOMAIN products :
                    products'[p] = products[p] + QuantityOf(handles[h].id, p)
             /\ \A i \in DOMAIN order_items' :
                    order_items'[i].order_id # handles[h].id
             /\ handles[h].id \notin DOMAIN orders']_vars

\* the database after call c, made on the object the caller held, has run alone
\* on database d
Alone(d, c) ==
    CASE c.op = "add_item" ->
            add_item(d, c.obj, c.product_id, c.quantity, c.price, {}).db
      [] c.op = "remove_item" -> remove_item(d, c.obj, c.item_id, {}).db
      [] c.op = "add_payment" -> add_payment(d, c.obj, c.amount, {}).db
      [] OTHER -> d

\* what is stored of order id in the tables t: total_amount, paid_amount, status
Stored(t, id) ==
    IF id \in DOMAIN t
    THEN <<t[id].total_amount, t[id].paid_amount, t[id].status>>
    ELSE <<>>

\* two calls of add_item, remove_item or add_payment on the same stored order,
\* through two objects, have run overlapping and both have returned
TwoOnOneOrder ==
    /\ episode.done
    /\ Len(episode.calls) = 2
    /\ \A i \in 1 .. 2 :
          episode.calls[i].op \in {"add_item", "remove_item", "add_payment"}
    /\ episode.calls[1].h # episode.calls[2].h
    /\ episode.calls[1].obj.id = episode.calls[2].obj.id
    /\ episode.calls[1].obj.id \in DOMAIN episode.db.orders

\* C12: after two overlapping calls of add_item, remove_item or add_payment on
\* one order, the stored total_amount, paid_amount and status of the order are
\* those left by the two calls run one after the other in one of the two orders.
C12_OverlapIsSerial ==
    TwoOnOneOrder
    => LET c1 == episode.calls[1]
           c2 == episode.calls[2]
           id == c1.obj.id
       IN \/ Stored(orders, id) = Stored(Alone(Alone(episode.db, c1), c2).orders, id)
          \/ Stored(orders, id) = Stored(Alone(Alone(episode.db, c2), c1).orders, id)

\* two overlapping calls have each adjusted the stock of the same product, and
\* both have returned
TwoAdjustments ==
    /\ episode.done
    /\ Len(episode.calls) = 2
    /\ Len(episode.adjusts) = 2
    /\ episode.adjusts[1].product_id = episode.adjusts[2].product_id

\* C13: after two overlapping stock adjustments d1 and d2 of a product whose
\* stock was s, the stock is s + d1 + d2.
C13_AdjustmentsAddUp ==
    TwoAdjustments
    => LET p == episode.adjusts[1].product_id
       IN products[p] = episode.db.products[p] + episode.adjusts[1].delta
                          + episode.adjusts[2].delta

\* C14: the stored paid_amount of an order never decreases while the order is
\* stored.
C14_PaidNeverDecreases ==
    [][\A id \in DOMAIN orders \cap DOMAIN orders' :
          orders'[id].paid_amount >= orders[id].paid_amount]_vars

\* C15: add_payment of an amount that is not positive fails, appends no payment
\* record and leaves the stored orders as they are.
C15_PaymentMustBePositive ==
    [][\A h \in Handles, amount \in Amounts :
          (amount <= 0 /\ AddPayment(h, amount, {}))
          => /\ ~last'.ok
             /\ financial_transactions' = financial_transactions
             /\ orders' = orders]_vars

\* C16: add_item of a quantity that is not positive fails and leaves the stored
\* lines, orders and stock as they are; every stored line has a positive quantity.
C16_QuantityMustBePositive ==
    [][/\ \A h \in Handles, p \in ProductArgs, q \in Quantities, price \in Prices :
             (q <= 0 /\ AddItem(h, p, q, price, {}))
             => /\ ~last'.ok
                /\ order_items' = order_items
                /\ orders' = orders
                /\ products' = products
       /\ \A i \in DOMAIN order_items' : order_items'[i].quantity > 0]_vars

\* C17: remove_item on a stored order, with the id of a line that is not a line
\* of that order, fails and leaves the stored lines, orders and stock as they are.
C17_RemoveOnlyOwnLine ==
    [][\A h \in Handles, item_id \in 1 .. MaxCalls :
          (/\ RemoveItem(h, item_id, {})
           /\ handles[h].id \in DOMAIN orders
           /\ ~(/\ item_id \in DOMAIN order_items
                /\ order_items[item_id].order_id = handles[h].id))
          => /\ ~last'.ok
             /\ order_items' = order_items
             /\ orders' = orders
             /\ products' = products]_vars

\* C18: add_item on a stored order with a product id that no stored product has
\* fails, inserts no line and leaves the stored orders as they are.
C18_ProductMustExist ==
    [][\A h \in Handles, p \in ProductArgs, q \in Quantities, price \in Prices :
          (/\ AddItem(h, p, q, price, {})
           /\ handles[h].id \in DOMAIN orders
           /\ p \notin DOMAIN products)
          => /\ ~last'.ok
             /\ order_items' = order_items
             /\ orders' = orders]_vars

\* C19: save of a new order whose customer_id is that of no stored customer
\* fails and inserts no row; a new order that save stores has total_amount 0,
\* paid_amount 0 and status 'pending'.
C19_CustomerMustExist ==
    [][\A h \in Handles :
          (Save(h, {}) /\ handles[h].id = 0)
          => /\ (handles[h].customer_id # 0 /\ handles[h].customer_id \notin Customers)
                => (~last'.ok /\ orders' = orders)
             /\ last'.ok
                => /\ handles'[h].id \in DOMAIN orders' \ DOMAIN orders
                   /\ orders'[handles'[h].id].total_amount = 0
                   /\ orders'[handles'[h].id].paid_amount = 0
                   /\ orders'[handles'[h].id].status = "pending"]_vars

\* C20: the payment records are append-only: every step leaves every record it
\* finds in place and unchanged, the delete of the order it refers to included.
C20_LedgerAppendOnly ==
    [][/\ Len(financial_transactions') >= Len(financial_transactions)
       /\ \A i \in DOMAIN financial_transactions :
             financial_transactions'[i] = financial_transactions[i]]_vars

\* an order with a payment record has been deleted, and the record is stored
C20_RecordOutlivesOrder ==
    /\ last.op = "delete"
    /\ last.ok
    /\ \E i \in DOMAIN financial_transactions :
          /\ financial_transactions[i].reference_id = handles[last.h].id
          /\ handles[last.h].id \notin DOMAIN orders

\* C21: a call of add_item or add_payment during which a statement raised does
\* not report success to its caller.
C21_FailureReachesCaller ==
    (last.op \in {"add_item", "add_payment"} /\ last.raised) => ~last.ok

\* C22: add_payment on a stored order, of an amount that brings the paid_amount to
\* the total_amount or above, leaves the paid_amount at the previous paid_amount
\* plus the amount and the status at 'paid', in the object and in the stored row.
C22_FullPaymentIsPaid ==
    [][\A h \in Handles, amount \in Amounts :
          (/\ AddPayment(h, amount, {})
           /\ handles[h].id \in DOMAIN orders
           /\ orders[handles[h].id].paid_amount + amount
                 >= orders[handles[h].id].total_amount)
          => LET id == handles[h].id
                 paid == orders[id].paid_amount + amount
             IN /\ last'.ok
                /\ orders'[id].paid_amount = paid
                /\ orders'[id].status = "paid"
                /\ handles'[h].paid_amount = paid
                /\ handles'[h].status = "paid"]_vars

\* C23: add_payment on a stored order that leaves the stored paid_amount above 0
\* and below the stored total_amount leaves the status at 'partial', in the row
\* and in the object, and to_dict of the object gives the remaining amount
\* total_amount - paid_amount.
C23_PartialPayment ==
    [][\A h \in Handles, amount \in Amounts :
          (/\ AddPayment(h, amount, {})
           /\ handles[h].id \in DOMAIN orders
           /\ 0 < orders'[handles[h].id].paid_amount
           /\ orders'[handles[h].id].paid_amount
                 < orders'[handles[h].id].total_amount)
          => LET id == handles[h].id
             IN /\ orders'[id].status = "partial"
                /\ handles'[h].status = "partial"
                /\ to_dict(handles'[h]).remaining_amount
                      = orders'[id].total_amount - orders'[id].paid_amount]_vars

\* a line of order id is stored, or a payment of order id is recorded
Applied(id) ==
    \/ \E i \in DOMAIN order_items : order_items[i].order_id = id
    \/ \E i \in DOMAIN financial_transactions :
          financial_transactions[i].reference_id = id

\* C24: the status of a stored order to which a line or a payment has been
\* applied, once it is not 'pending', is not set back to 'pending'.
C24_NeverBackToPending ==
    [][\A id \in DOMAIN orders \cap DOMAIN orders' :
          (Applied(id) /\ orders[id].status # "pending")
          => orders'[id].status # "pending"]_vars

\* C25: after add_payment on a stored order the stored paid_amount is at most the
\* stored total_amount, and an amount that would bring it above is not reported
\* as a plain success.
C25_NoOverpayment ==
    [][\A h \in Handles, amount \in Amounts :
          (AddPayment(h, amount, {}) /\ handles[h].id \in DOMAIN orders)
          => LET id == handles[h].id
             IN /\ orders'[id].paid_amount <= orders'[id].total_amount
                /\ orders[id].paid_amount + amount > orders[id].total_amount
                   => ~last'.ok]_vars

\* C26: the number that save generates for a new order is none of the numbers
\* generated before it, the numbers of orders deleted since included.
C26_NumberNeverReused ==
    [][\A h \in Handles :
          (/\ Save(h, {})
           /\ handles[h].id = 0
           /\ handles[h].order_number = NoNumber)
          => handles'[h].order_number \notin issued]_vars

\* C27: with the highest 4-digit sequence stored for the date, the number that
\* save generates for a new order is that of no stored order, whichever
\* generations came before.
C27_PastLastOfWidth ==
    [][\A h \in Handles :
          (/\ Save(h, {})
           /\ handles[h].id = 0
           /\ handles[h].order_number = NoNumber)
          => ~NumberTaken(DB, 0, handles'[h].order_number)]_vars

\* C28: a save of a new order on an object that kept the number of a failed
\* save, run while no other call is running, has a number that no stored order
\* has and succeeds.
C28_RetrySucceeds ==
    [][\A h \in Handles :
          (/\ SaveEnd(h, {})
           /\ Len(episode.calls) = 1
           /\ episode.calls[1].obj.order_number # NoNumber)
          => /\ ~NumberTaken(DB, 0, handles[h].order_number)
             /\ last'.ok]_vars

\* C29: every stored line is a line of a stored order.
C29_LinesHaveOrders ==
    \A i \in DOMAIN order_items : order_items[i].order_id \in DOMAIN orders

\* two overlapping calls of remove_item have each found the same stored line,
\* of a stored product, and both have returned
TwoRemovals ==
    /\ episode.done
    /\ Len(episode.calls) = 2
    /\ \A i \in 1 .. 2 : episode.calls[i].op = "remove_item"
    /\ episode.calls[1].item_id = episode.calls[2].item_id
    /\ episode.calls[1].item_id \in DOMAIN episode.db.order_items
    /\ episode.db.order_items[episode.calls[1].item_id].product_id
          \in DOMAIN episode.db.products

\* C30: two overlapping removals of the same line adjust the stock once, and the
\* stock ends at what it was plus the quantity of the line.
C30_RemovedOnce ==
    TwoRemovals
    => LET item == episode.db.order_items[episode.calls[1].item_id]
       IN /\ Len(episode.adjusts) = 1
          /\ products[item.product_id]
                = episode.db.products[item.product_id] + item.quantity

====
